---- MODULE Spec2Model ----
(***************************************************************************)
(* A model of shaha's hash-database storage engine: the local Parquet      *)
(* store (src/storage/parquet.rs), the remote store (src/storage/r2.rs),   *)
(* the build pipeline that feeds them (src/cli/build.rs), the query        *)
(* command (src/cli/query.rs) and the resolution of the remote             *)
(* configuration (src/config.rs).                                          *)
(*                                                                         *)
(* Byte strings are sequences of 0..255.  Digests, SipHash and the         *)
(* floating-point sizing of the Bloom filter belong to external crates;    *)
(* they are modelled by deterministic stand-ins of the same shape (digest  *)
(* length per algorithm, two keyed 'sip' hashes combined by double         *)
(* hashing, bit count and number of hash functions derived from the        *)
(* capacity and the false-positive rate).                                  *)
(***************************************************************************)
EXTENDS Integers, Sequences, FiniteSets, TLC

VARIABLES
    disk,       \* the artifact file at the output path
    st,         \* the ParquetStorage instance: writer and write_stats
    writes,     \* number of write_batch calls issued in the store scenario
    q,          \* the last read or finish of the caller and what it returned
    b,          \* the build invocation in progress (cli/build.rs run)
    r2,         \* the R2Storage instance, if the caller uses one, and the remote object
    env         \* the environment variables and the configuration file of the process

vars == <<disk, st, writes, q, b, r2, env>>

\* Option<T>: None is the empty sequence, Some(x) the one-element sequence
None == <<>>
Some(x) == <<x>>
IsSome(o) == o # <<>>
Unwrap(o) == o[1]

\* Result<T>
Ok(v) == [ok |-> TRUE, value |-> v]
Err == [ok |-> FALSE, value |-> <<>>]

\* the output path: no file, a created but not yet closed file, or a closed one
NoFile == [kind |-> "absent"]
PartialFile == [kind |-> "partial"]

\* ------------------------------------------------------------------ bounds

\* number of write_batch calls on one ParquetStorage instance (store scenario)
MaxWrites == 2
\* largest limit passed to query
MaxLimit == 1
\* number of build invocations on the output path
MaxBuilds == 2
\* rows per row group of the container writer (scaled)
ROW_GROUP_SIZE == 3
\* records per write_batch chunk of the build pipeline (scaled from 100_000)
BATCH_SIZE == 2

\* ---------------------------------------------------------- byte strings

Min(x, y) == IF x <= y THEN x ELSE y
Max(x, y) == IF x >= y THEN x ELSE y

\* the first index at which a and c differ, or one past the shorter of them
FirstDiff(a, c) ==
    LET n == Min(Len(a), Len(c))
    IN CHOOSE i \in 1..(n + 1) :
          /\ (i = n + 1 \/ a[i] # c[i])
          /\ \A j \in 1..(i - 1) : a[j] = c[j]

\* -1, 0, 1: byte-lexicographic comparison of a and c
LexCmp(a, c) ==
    LET i == FirstDiff(a, c)
    IN IF i > Len(a) /\ i > Len(c) THEN 0
       ELSE IF i > Len(a) THEN -1
       ELSE IF i > Len(c) THEN 1
       ELSE IF a[i] < c[i] THEN -1 ELSE 1

\* Ord for [u8] / Vec<u8>
LexLE(a, c) == LexCmp(a, c) <= 0

\* slice::starts_with
starts_with(h, p) == Len(p) <= Len(h) /\ SubSeq(h, 1, Len(p)) = p

\* ---------------------------------------------------------------- hashers

\* get_hasher: the name as given on the command line -> the hasher's name()
HasherName(a) ==
    CASE a = "dsha256" -> "hash256"
      [] a = "keccak-256" -> "keccak256"
      [] a = "ripemd-160" -> "ripemd160"
      [] OTHER -> a

\* output length of each hasher in bytes
DigestLen(a) ==
    CASE a = "md5" -> 16
      [] a \in {"sha1", "ripemd160", "hash160"} -> 20
      [] a = "sha512" -> 64
      [] OTHER -> 32

AlgoCode(a) ==
    CASE a = "md5" -> 11
      [] a = "sha1" -> 59
      [] a = "sha256" -> 101
      [] a = "sha512" -> 157
      [] a = "hash256" -> 199
      [] OTHER -> 233

WordCode(w) ==
    CASE w = "hello" -> 3
      [] w = "world" -> 41
      [] w = "test" -> 87
      [] w = "pass" -> 66
      [] w = "notindb" -> 120
      [] w = "collA" -> 150
      [] w = "collB" -> 151
      [] OTHER -> 7

\* the two words of the scenario that have the same md5 digest
Colliding(a, w) == IF a = "md5" /\ w = "collB" THEN "collA" ELSE w

\* Hasher::hash: a deterministic digest of DigestLen(a) bytes (stand-in for
\* the cryptographic primitive)
Digest(a, w) ==
    LET c == WordCode(Colliding(a, w))
    IN [i \in 1..DigestLen(a) |-> (AlgoCode(a) + c + i * (2 * c + 1)) % 256]

HashRecord(h, p, a, s) == [hash |-> h, preimage |-> p, algorithm |-> a, sources |-> s]

\* ------------------------------------------------------ membership filter

DEFAULT_BLOOM_CAPACITY == 1000000

\* the width of the modelled sip hashes and the largest prime below it
SipRange == 65536
SipPrime == 65521

RECURSIVE SipMix(_, _, _, _)
\* the keyed mixing of bytes[lo..hi], by halves
SipMix(key, bytes, lo, hi) ==
    IF lo > hi THEN key[1] % SipRange
    ELSE IF lo = hi THEN (bytes[lo] * 251 + key[2] * 17 + lo) % SipRange
    ELSE LET mid == (lo + hi) \div 2
         IN (SipMix(key, bytes, lo, mid) * 31 + SipMix(key, bytes, mid + 1, hi) * 7 + key[1]) % SipRange

\* SipHasher13::new_with_keys(k0, k1) over the item (stand-in)
Sip(key, bytes) == (SipMix(key, bytes, 1, Len(bytes)) + Len(bytes) * 257) % SipRange

\* Bloom::compute_bitmap_size(items, 0.01): ceil(items * ln(1/p) / (8 ln2^2)) bytes
compute_bitmap_size(items) == (((items + 999) \div 1000) * 1198133 + 999) \div 1000

\* Bloom::optimal_k_num: max(1, ceil(bits / items * ln 2))
optimal_k_num(bits, items) == Max(1, ((((bits * 10) \div items) * 693) + 9999) \div 10000)

\* Bloom::new_for_fp_rate(items, BLOOM_FP_RATE) with freshly drawn sip keys
BloomNew(items, keys) ==
    LET bytes == compute_bitmap_size(items) IN
    [ bitmap_bits |-> bytes * 8,
      k_num |-> optimal_k_num(bytes * 8, items),
      sip_keys |-> keys,
      ones |-> {} ]

\* Bloom::bloom_hash: the k_i-th hash of an item, from its two sip hashes
\* (double hashing from the third on)
bloom_hash(h0, h1, k_i) ==
    IF k_i = 0 THEN h0
    ELSE IF k_i = 1 THEN h1
    ELSE ((h0 + k_i * h1) % SipRange) % SipPrime

\* the bit offsets Bloom::set and Bloom::check visit: one per hash function
BloomPositions(bl, item) ==
    LET h0 == Sip(bl.sip_keys[1], item)
        h1 == Sip(bl.sip_keys[2], item)
    IN {bloom_hash(h0, h1, k_i) % bl.bitmap_bits : k_i \in 0..(bl.k_num - 1)}

\* Bloom::set
BloomSet(bl, item) == [bl EXCEPT !.ones = @ \cup BloomPositions(bl, item)]

\* Bloom::check
BloomCheck(bl, item) == BloomPositions(bl, item) \subseteq bl.ones

\* Bloom::bitmap: the bit vector as bytes
BloomBitmap(bl) == [len |-> (bl.bitmap_bits + 7) \div 8, ones |-> bl.ones]

\* Bloom::from_existing(bitmap, bitmap_bits, k_num, sip_keys)
BloomFromExisting(bytes, bits, k, keys) ==
    [bitmap_bits |-> bits, k_num |-> k, sip_keys |-> keys, ones |-> bytes.ones]

\* the sip keys a new filter may draw
SipKeyChoices ==
    { << <<1, 2>>, <<3, 4>> >>, << <<5, 6>>, <<7, 8>> >> }

\* ------------------------------------------------- text of metadata values

\* a text is the sequence of the codes of its characters
Comma == 44
Quote == 34
Backslash == 92
BracketOpen == 91
BracketClose == 93
Digit0 == 48

\* String::as_str: the text of the strings of the scenario
Chars(s) ==
    CASE s = "md5" -> <<109, 100, 53>>
      [] s = "sha256" -> <<115, 104, 97, 50, 53, 54>>
      [] s = "sha512" -> <<115, 104, 97, 53, 49, 50>>
      [] s = "hash256" -> <<104, 97, 115, 104, 50, 53, 54>>
      [] s = "list1" -> <<108, 105, 115, 116, 49>>
      [] s = "list2" -> <<108, 105, 115, 116, 50>>
      [] s = "t1" -> <<116, 49>>
      [] s = "a,b" -> <<97, 44, 98>>
      [] s = "a" -> <<97>>
      [] s = "b" -> <<98>>
      [] s = "fp1" -> <<102, 112, 49>>
      [] s = "fp2" -> <<102, 112, 50>>
      [] s = "list3" -> <<108, 105, 115, 116, 51>>
      [] s = "list4" -> <<108, 105, 115, 116, 52>>
      [] s = "fp3" -> <<102, 112, 51>>
      [] s = "fp4" -> <<102, 112, 52>>
      [] s = "list0" -> <<108, 105, 115, 116, 48>>
      [] s = "fp0" -> <<102, 112, 48>>
      [] OTHER -> <<>>

RECURSIVE ToDecimal(_)
\* usize::to_string / u64 Display: the decimal digits
ToDecimal(n) ==
    IF n < 10 THEN <<Digit0 + n>> ELSE Append(ToDecimal(n \div 10), Digit0 + (n % 10))

RECURSIVE DigitsValue(_, _, _)
DigitsValue(s, i, acc) ==
    IF i > Len(s) THEN acc ELSE DigitsValue(s, i + 1, acc * 10 + (s[i] - Digit0))

\* str::parse::<integer>().ok()
ParseDecimal(s) ==
    IF Len(s) > 0 /\ Len(s) <= 9 /\ \A i \in 1..Len(s) : s[i] \in Digit0..(Digit0 + 9)
    THEN Some(DigitsValue(s, 1, 0)) ELSE None

\* hex::encode: two lower-case hexadecimal digits per byte
HexDigit(n) == IF n < 10 THEN Digit0 + n ELSE 97 + (n - 10)
HexEncode(bytes) ==
    [ i \in 1..(2 * Len(bytes)) |->
        LET byte == bytes[(i + 1) \div 2]
        IN IF i % 2 = 1 THEN HexDigit(byte \div 16) ELSE HexDigit(byte % 16) ]

\* the value of one hexadecimal digit of either case, None for another
\* character
HexValue(c) ==
    IF c \in Digit0..(Digit0 + 9) THEN Some(c - Digit0)
    ELSE IF c \in 97..102 THEN Some(c - 97 + 10)
    ELSE IF c \in 65..70 THEN Some(c - 65 + 10)
    ELSE None

\* hex::decode: an odd length or a character that is no hexadecimal digit is
\* an error
HexDecode(text) ==
    IF Len(text) % 2 = 1 \/ \E i \in 1..Len(text) : HexValue(text[i]) = None
    THEN Err
    ELSE Ok([ i \in 1..(Len(text) \div 2) |->
                Unwrap(HexValue(text[2 * i - 1])) * 16 + Unwrap(HexValue(text[2 * i])) ])

RECURSIVE Join(_, _)
\* [T]::join(sep) / format!("{},{}"): the parts with sep between them
Join(parts, sep) ==
    IF parts = <<>> THEN <<>>
    ELSE IF Len(parts) = 1 THEN parts[1]
    ELSE parts[1] \o <<sep>> \o Join(Tail(parts), sep)

RECURSIVE SplitFrom(_, _, _, _)
SplitFrom(text, sep, i, cur) ==
    IF i > Len(text) THEN <<cur>>
    ELSE IF text[i] = sep THEN <<cur>> \o SplitFrom(text, sep, i + 1, <<>>)
    ELSE SplitFrom(text, sep, i + 1, Append(cur, text[i]))

\* str::split(sep): the pieces between the separators, empty ones included
Split(text, sep) == SplitFrom(text, sep, 1, <<>>)

\* serde_json::to_string of a set of strings, in the iteration order given
\* (the strings of the scenario need no escaping)
JsonEncode(strings) ==
    LET Quoted(c) == <<Quote>> \o c \o <<Quote>>
    IN <<BracketOpen>> \o Join([i \in 1..Len(strings) |-> Quoted(strings[i])], Comma)
       \o <<BracketClose>>

\* serde_json::from_str::<HashSet<String>>: an array of string literals
JsonDecode(text) ==
    IF Len(text) < 2 \/ text[1] # BracketOpen \/ text[Len(text)] # BracketClose THEN Err
    ELSE LET inner == SubSeq(text, 2, Len(text) - 1)
             parts == Split(inner, Comma)
             IsLiteral(c) == /\ Len(c) >= 2 /\ c[1] = Quote /\ c[Len(c)] = Quote
                             /\ \A i \in 2..(Len(c) - 1) : c[i] \notin {Quote, Backslash}
         IN IF inner = <<>> THEN Ok({})
            ELSE IF \A i \in 1..Len(parts) : IsLiteral(parts[i])
            THEN Ok({SubSeq(parts[i], 2, Len(parts[i]) - 1) : i \in 1..Len(parts)})
            ELSE Err

\* BASE64.encode / BASE64.decode of the bitmap bytes
Base64Encode(bytes) == <<"base64", bytes>>
Base64Decode(text) == IF text[1] = "base64" THEN Ok(text[2]) ELSE Err

\* all orders in which a HashSet may be iterated
RECURSIVE Orders(_)
Orders(S) ==
    IF S = {} THEN {<<>>}
    ELSE UNION {{<<x>> \o o : o \in Orders(S \ {x})} : x \in S}

\* ------------------------------------------------------- ParquetStorage

\* WriteStats::with_capacity
WriteStats_with_capacity(expected_records, keys) ==
    LET bloom_capacity == Max(expected_records, DEFAULT_BLOOM_CAPACITY) IN
    [ total_records |-> 0,
      algorithms |-> {},
      sources |-> {},
      source_hashes |-> {},
      bloom |-> BloomNew(bloom_capacity, keys) ]

\* ParquetStorage::with_expected_capacity (the path is the one output path)
with_expected_capacity(expected_records, keys) ==
    [ writer |-> None,
      write_stats |-> WriteStats_with_capacity(expected_records, keys) ]

\* ParquetStorage::new
ParquetStorage_new(keys) == with_expected_capacity(DEFAULT_BLOOM_CAPACITY, keys)

RECURSIVE collect_stats_from(_, _, _)
collect_stats_from(ws, records, i) ==
    IF i > Len(records) THEN ws
    ELSE collect_stats_from(
            [ws EXCEPT !.bloom = BloomSet(@, records[i].hash),
                       !.algorithms = @ \cup {records[i].algorithm},
                       !.sources = @ \cup {records[i].sources[j] : j \in 1..Len(records[i].sources)}],
            records, i + 1)

\* ParquetStorage::collect_stats
collect_stats(ws, records) ==
    collect_stats_from([ws EXCEPT !.total_records = @ + Len(records)], records, 1)

\* ParquetStorage::ensure_writer: File::create truncates the path and the
\* writer starts with no rows
ensure_writer(s, d) ==
    IF s.writer = None
    THEN [st |-> [s EXCEPT !.writer = Some([rows |-> <<>>])], disk |-> PartialFile]
    ELSE [st |-> s, disk |-> d]

\* mutant: the empty batch is not returned early
write_batch_NoEmptyCheck(s, d, records) ==
    LET s1 == [s EXCEPT !.write_stats = collect_stats(@, records)]
        w == ensure_writer(s1, d)
    IN [ st |-> [w.st EXCEPT !.writer = Some([rows |-> Unwrap(@).rows \o records])],
         disk |-> w.disk ]

\* Storage::write_batch for ParquetStorage
write_batch(s, d, records) ==
    IF records = <<>> THEN [st |-> s, disk |-> d]
    ELSE LET s1 == [s EXCEPT !.write_stats = collect_stats(@, records)]
             w == ensure_writer(s1, d)
         IN [ st |-> [w.st EXCEPT !.writer = Some([rows |-> Unwrap(@).rows \o records])],
              disk |-> w.disk ]

\* the key/value metadata finish() appends; the three orders are the
\* iteration orders of the HashSets
FinishMetadata(ws, algOrder, srcOrder, fpOrder) ==
    [ total_records |-> Some(ToDecimal(ws.total_records)),
      algorithms |-> Some(Join([i \in 1..Len(algOrder) |-> Chars(algOrder[i])], Comma)),
      sources |-> Some(Join([i \in 1..Len(srcOrder) |-> Chars(srcOrder[i])], Comma)),
      bloom_bitmap |-> Some(Base64Encode(BloomBitmap(ws.bloom))),
      bloom_keys |-> Some(Join(<< ToDecimal(ws.bloom.sip_keys[1][1]), ToDecimal(ws.bloom.sip_keys[1][2]),
                                  ToDecimal(ws.bloom.sip_keys[2][1]), ToDecimal(ws.bloom.sip_keys[2][2]) >>,
                               Comma)),
      bloom_items |-> Some(ToDecimal(ws.total_records)),
      source_hashes |-> IF ws.source_hashes # {}
                        THEN Some(JsonEncode([i \in 1..Len(fpOrder) |-> Chars(fpOrder[i])]))
                        ELSE None ]

\* mutant: a finish without an open writer writes an empty artifact
finish_AlwaysWrites(s, d, algOrder, srcOrder, fpOrder) ==
    [ st |-> [s EXCEPT !.writer = None],
      disk |-> [ kind |-> "final",
                 rows |-> IF IsSome(s.writer) THEN Unwrap(s.writer).rows ELSE <<>>,
                 meta |-> FinishMetadata(s.write_stats, algOrder, srcOrder, fpOrder) ] ]

\* Storage::finish for ParquetStorage
finish(s, d, algOrder, srcOrder, fpOrder) ==
    IF IsSome(s.writer)
    THEN [ st |-> [s EXCEPT !.writer = None],
           disk |-> [ kind |-> "final",
                      rows |-> Unwrap(s.writer).rows,
                      meta |-> FinishMetadata(s.write_stats, algOrder, srcOrder, fpOrder) ] ]
    ELSE [st |-> s, disk |-> d]

\* ParquetStorage::add_source_hash
add_source_hash(s, hash) == [s EXCEPT !.write_stats.source_hashes = @ \cup {hash}]

\* ParquetStorage::load_bloom_filter
load_bloom_filter(d) ==
    IF d.kind # "final" THEN Err
    ELSE LET bitmap == IF IsSome(d.meta.bloom_bitmap)
                       THEN Base64Decode(Unwrap(d.meta.bloom_bitmap)) ELSE Ok(None)
             pieces == IF IsSome(d.meta.bloom_keys)
                       THEN Split(Unwrap(d.meta.bloom_keys), Comma) ELSE <<>>
             parts == SelectSeq([i \in 1..Len(pieces) |-> ParseDecimal(pieces[i])], IsSome)
             keys == IF Len(parts) = 4
                     THEN Some(<< <<Unwrap(parts[1]), Unwrap(parts[2])>>,
                                  <<Unwrap(parts[3]), Unwrap(parts[4])>> >>)
                     ELSE None
             items_count == IF IsSome(d.meta.bloom_items)
                            THEN ParseDecimal(Unwrap(d.meta.bloom_items)) ELSE None
         IN IF ~bitmap.ok THEN Err
            ELSE IF IsSome(d.meta.bloom_bitmap) /\ IsSome(keys) /\ IsSome(items_count)
            THEN Ok(Some(BloomFromExisting(bitmap.value, bitmap.value.len * 8,
                                           Unwrap(items_count), Unwrap(keys))))
            ELSE Ok(None)

\* ParquetStorage::is_full_hash_length
is_full_hash_length(len) == len \in {16, 20, 32, 64}

\* Vec::resize(n, 0xFF) growing or truncating
Resize(v, n) == [i \in 1..n |-> IF i <= Len(v) THEN v[i] ELSE 255]

\* ParquetStorage::prefix_might_be_in_range
prefix_might_be_in_range(prefix, min, max) ==
    IF prefix = <<>> THEN TRUE
    ELSE LET prefix_high == Resize(prefix, Max(Len(max), Len(prefix)))
         IN LexLE(prefix, max) /\ LexLE(min, prefix_high)

\* the container writer closes a row group every ROW_GROUP_SIZE rows
NumRowGroups(rows) == (Len(rows) + ROW_GROUP_SIZE - 1) \div ROW_GROUP_SIZE
RowGroupRows(rows, g) ==
    SubSeq(rows, (g - 1) * ROW_GROUP_SIZE + 1, Min(g * ROW_GROUP_SIZE, Len(rows)))

\* column statistics of the hash column of one row group
StatMin(rs) == (CHOOSE i \in 1..Len(rs) : \A j \in 1..Len(rs) : LexLE(rs[i].hash, rs[j].hash))
StatMax(rs) == (CHOOSE i \in 1..Len(rs) : \A j \in 1..Len(rs) : LexLE(rs[j].hash, rs[i].hash))

\* query, lines 496-510: whether a row group is selected for the scan
RowGroupSelected(rs, hash_prefix) ==
    prefix_might_be_in_range(hash_prefix, rs[StatMin(rs)].hash, rs[StatMax(rs)].hash)

RECURSIVE SelectedRowsFrom(_, _, _)
\* the rows of the selected row groups, in file order
SelectedRowsFrom(rows, hash_prefix, g) ==
    IF g > NumRowGroups(rows) THEN <<>>
    ELSE (IF RowGroupSelected(RowGroupRows(rows, g), hash_prefix)
          THEN RowGroupRows(rows, g) ELSE <<>>)
         \o SelectedRowsFrom(rows, hash_prefix, g + 1)

\* mutant: the algorithm filter is not applied
RowMatches_NoAlgo(row, hash_prefix, algo) == starts_with(row.hash, hash_prefix)

\* query, lines 547-554: the per-row prefix and algorithm filter
RowMatches(row, hash_prefix, algo) ==
    /\ starts_with(row.hash, hash_prefix)
    /\ ~(IsSome(algo) /\ row.algorithm # Unwrap(algo))

\* query, line 563: the test that ends the scan
LimitReached(results, limit) == IsSome(limit) /\ Len(results) >= Unwrap(limit)

RECURSIVE ScanRows(_, _, _, _, _, _)
\* query, lines 520-567: the scan loop
ScanRows(rows, i, hash_prefix, algo, limit, results) ==
    IF i > Len(rows) THEN results
    ELSE IF ~RowMatches(rows[i], hash_prefix, algo)
    THEN ScanRows(rows, i + 1, hash_prefix, algo, limit, results)
    ELSE LET pushed == Append(results, rows[i])
         IN IF LimitReached(pushed, limit) THEN pushed
            ELSE ScanRows(rows, i + 1, hash_prefix, algo, limit, pushed)

\* query, lines 481-487: the membership-filter gate; TRUE when the filter
\* reports the prefix as definitely absent
BloomRejects(d, hash_prefix) ==
    /\ is_full_hash_length(Len(hash_prefix))
    /\ LET loaded == load_bloom_filter(d)
       IN /\ loaded.ok
          /\ IsSome(loaded.value)
          /\ ~BloomCheck(Unwrap(loaded.value), hash_prefix)

\* mutant: the read does not test that the path exists
query_NoExistsCheck(d, hash_prefix, algo, limit) ==
    IF d.kind # "final" THEN Err
    ELSE IF BloomRejects(d, hash_prefix) THEN Ok(<<>>)
    ELSE LET selected == SelectedRowsFrom(d.rows, hash_prefix, 1)
         IN IF selected = <<>> THEN Ok(<<>>)
            ELSE Ok(ScanRows(selected, 1, hash_prefix, algo, limit, <<>>))

\* Storage::query for ParquetStorage
query(d, hash_prefix, algo, limit) ==
    IF d.kind = "absent" THEN Ok(<<>>)
    ELSE IF BloomRejects(d, hash_prefix) THEN Ok(<<>>)
    ELSE IF d.kind # "final" THEN Err
    ELSE LET selected == SelectedRowsFrom(d.rows, hash_prefix, 1)
         IN IF selected = <<>> THEN Ok(<<>>)
            ELSE Ok(ScanRows(selected, 1, hash_prefix, algo, limit, <<>>))

\* cli::query::run for a local database: the hash argument is decoded, the
\* store is queried, and an empty result ends in bail!("No matches found")
query_run(d, hash, algo, limit) ==
    LET hash_bytes == HexDecode(hash)
    IN IF ~hash_bytes.ok THEN Err
       ELSE LET results == query(d, hash_bytes.value, algo, limit)
            IN IF ~results.ok THEN Err
               ELSE IF results.value = <<>> THEN Err
               ELSE Ok(results.value)

\* ParquetStorage::for_each_record: the records handed to the callback
for_each_record(d) ==
    IF d.kind = "absent" THEN Ok(<<>>)
    ELSE IF d.kind # "final" THEN Err
    ELSE Ok(d.rows)

\* ParquetStorage::get_source_hashes
get_source_hashes(d) ==
    IF d.kind = "absent" THEN Ok({})
    ELSE IF d.kind # "final" THEN Err
    ELSE IF IsSome(d.meta.source_hashes)
    THEN LET parsed == JsonDecode(Unwrap(d.meta.source_hashes))
         IN IF parsed.ok THEN parsed ELSE Ok({})
    ELSE Ok({})

\* Stats::default
Stats_default == [total_records |-> 0, algorithms |-> {}, sources |-> {}]

\* the non-empty pieces of a comma-separated metadata value
NonEmptyPieces(text) ==
    LET pieces == Split(text, Comma)
    IN {pieces[i] : i \in {j \in 1..Len(pieces) : pieces[j] # <<>>}}

\* ParquetStorage::read_stats_from_metadata (algorithms and sources as sets
\* of texts; the file size is left out)
read_stats_from_metadata(d) ==
    IF d.kind # "final" THEN Err
    ELSE LET total_records == IF IsSome(d.meta.total_records)
                              THEN ParseDecimal(Unwrap(d.meta.total_records)) ELSE None
         IN IF IsSome(total_records) /\ IsSome(d.meta.algorithms) /\ IsSome(d.meta.sources)
            THEN Ok(Some([ total_records |-> Unwrap(total_records),
                           algorithms |-> NonEmptyPieces(Unwrap(d.meta.algorithms)),
                           sources |-> NonEmptyPieces(Unwrap(d.meta.sources)) ]))
            ELSE Ok(None)

\* ParquetStorage::scan_stats
scan_stats(d) ==
    IF d.kind # "final" THEN Err
    ELSE Ok([ total_records |-> Len(d.rows),
              algorithms |-> {Chars(d.rows[i].algorithm) : i \in 1..Len(d.rows)},
              sources |-> UNION { {Chars(d.rows[i].sources[j]) : j \in 1..Len(d.rows[i].sources)} :
                                  i \in 1..Len(d.rows) } ])

\* Storage::stats for ParquetStorage
stats(d) ==
    IF d.kind = "absent" THEN Ok(Stats_default)
    ELSE LET from_metadata == read_stats_from_metadata(d)
         IN IF ~from_metadata.ok THEN Err
            ELSE IF IsSome(from_metadata.value) THEN Ok(Unwrap(from_metadata.value))
            ELSE scan_stats(d)

\* no read is pending
NoQuery == [op |-> "none"]

\* ------------------------------------------------------------ R2Storage

\* R2Storage::new: the connection with its empty pending_records table, and
\* the empty buffer
R2Storage_new == [pending_records |-> <<>>, table |-> <<>>]

\* no R2Storage is constructed; nothing is at the remote location. passed
\* keeps the records handed to write_batch since the last finish that returned
\* success
NoR2 == [store |-> None, remote |-> NoFile, received |-> FALSE, passed |-> <<>>]

\* Storage::write_batch for R2Storage
R2_write_batch(s, records) == [s EXCEPT !.pending_records = @ \o records]

\* R2Storage::insert_pending_to_table; failed_at is the index of the insert
\* that fails, 0 when none does. The drain empties the buffer either way.
insert_pending_to_table(s, failed_at) ==
    IF s.pending_records = <<>> THEN [ok |-> TRUE, st |-> s]
    ELSE IF failed_at = 0
    THEN [ ok |-> TRUE,
           st |-> [pending_records |-> <<>>, table |-> s.table \o s.pending_records] ]
    ELSE [ ok |-> FALSE,
           st |-> [ pending_records |-> <<>>,
                    table |-> s.table \o SubSeq(s.pending_records, 1, failed_at - 1) ] ]

\* Storage::finish for R2Storage; copy_ok tells whether the COPY to the
\* remote location succeeds, delete_ok whether the DELETE that clears the
\* table does
R2_finish(s, remote, failed_at, copy_ok, delete_ok) ==
    IF s.pending_records = <<>> THEN [ok |-> TRUE, st |-> s, remote |-> remote]
    ELSE LET inserted == insert_pending_to_table(s, failed_at)
             object == [kind |-> "object", rows |-> inserted.st.table]
         IN IF ~inserted.ok THEN [ok |-> FALSE, st |-> inserted.st, remote |-> remote]
            ELSE IF ~copy_ok THEN [ok |-> FALSE, st |-> inserted.st, remote |-> remote]
            ELSE IF ~delete_ok THEN [ok |-> FALSE, st |-> inserted.st, remote |-> object]
            ELSE [ok |-> TRUE, st |-> [inserted.st EXCEPT !.table = <<>>], remote |-> object]

\* ------------------------------------------------------------- Config

\* Option::or_else
OrElse(o, other) == IF IsSome(o) THEN o ELSE other

\* R2Section::default: a configuration file without a [storage.r2] value
R2Section_default ==
    [ endpoint |-> None, bucket |-> None, access_key_id |-> None,
      secret_access_key |-> None, region |-> None, path |-> None ]

\* the environment variables the resolvers read, all unset
NoEnvVars ==
    [ SHAHA_R2_ENDPOINT |-> None, SHAHA_R2_BUCKET |-> None,
      SHAHA_R2_ACCESS_KEY_ID |-> None, AWS_ACCESS_KEY_ID |-> None,
      SHAHA_R2_SECRET_ACCESS_KEY |-> None, AWS_SECRET_ACCESS_KEY |-> None ]

\* the process environment and the [storage.r2] section Config::load found
NoEnv == [vars |-> NoEnvVars, r2 |-> R2Section_default]

\* R2Config::new: the region starts as "auto"
R2Config_new(endpoint, access_key_id, secret_access_key, bucket, path) ==
    [ endpoint |-> endpoint, access_key_id |-> access_key_id,
      secret_access_key |-> secret_access_key, bucket |-> bucket,
      path |-> path, region |-> "auto" ]

\* Config::to_r2_config: an Option<R2Config>
to_r2_config(e) ==
    LET r2s == e.r2
        endpoint == OrElse(r2s.endpoint, e.vars.SHAHA_R2_ENDPOINT)
        bucket == OrElse(r2s.bucket, e.vars.SHAHA_R2_BUCKET)
        access_key_id == OrElse(OrElse(r2s.access_key_id, e.vars.SHAHA_R2_ACCESS_KEY_ID),
                                e.vars.AWS_ACCESS_KEY_ID)
        secret_access_key == OrElse(OrElse(r2s.secret_access_key, e.vars.SHAHA_R2_SECRET_ACCESS_KEY),
                                    e.vars.AWS_SECRET_ACCESS_KEY)
        path == IF IsSome(r2s.path) THEN Unwrap(r2s.path) ELSE "hashes.parquet"
    IN IF endpoint = None THEN None
       ELSE IF bucket = None THEN None
       ELSE IF access_key_id = None THEN None
       ELSE IF secret_access_key = None THEN None
       ELSE LET config == R2Config_new(Unwrap(endpoint), Unwrap(access_key_id),
                                       Unwrap(secret_access_key), Unwrap(bucket), path)
            IN Some(IF IsSome(r2s.region) THEN [config EXCEPT !.region = Unwrap(r2s.region)]
                    ELSE config)

\* Config::build_r2_config: a Result<R2Config>; the error carries the field
\* its message names
build_r2_config(e, overrides) ==
    LET r2s == e.r2
        endpoint == OrElse(OrElse(overrides.endpoint, e.vars.SHAHA_R2_ENDPOINT), r2s.endpoint)
        bucket == OrElse(OrElse(overrides.bucket, e.vars.SHAHA_R2_BUCKET), r2s.bucket)
        access_key_id ==
            OrElse(OrElse(OrElse(overrides.access_key_id, e.vars.SHAHA_R2_ACCESS_KEY_ID),
                          e.vars.AWS_ACCESS_KEY_ID), r2s.access_key_id)
        secret_access_key ==
            OrElse(OrElse(OrElse(overrides.secret_access_key, e.vars.SHAHA_R2_SECRET_ACCESS_KEY),
                          e.vars.AWS_SECRET_ACCESS_KEY), r2s.secret_access_key)
        path == IF IsSome(overrides.path) THEN Unwrap(overrides.path)
                ELSE IF IsSome(r2s.path) THEN Unwrap(r2s.path)
                ELSE overrides.default_path
        region == IF overrides.region # "auto" THEN overrides.region
                  ELSE IF IsSome(r2s.region) THEN Unwrap(r2s.region) ELSE "auto"
    IN IF endpoint = None THEN [ok |-> FALSE, value |-> "endpoint"]
       ELSE IF bucket = None THEN [ok |-> FALSE, value |-> "bucket"]
       ELSE IF access_key_id = None THEN [ok |-> FALSE, value |-> "access key"]
       ELSE IF secret_access_key = None THEN [ok |-> FALSE, value |-> "secret key"]
       ELSE Ok([ R2Config_new(Unwrap(endpoint), Unwrap(access_key_id),
                              Unwrap(secret_access_key), Unwrap(bucket), path)
                 EXCEPT !.region = region ])

\* ------------------------------------------------------ build pipeline

\* the key of the accumulator: type RecordKey = (Vec<u8>, String)
RecordKey(r) == <<r.hash, r.algorithm>>

\* HashMap::entry(key).or_insert(record): the first record of a key stays
or_insert(records_map, record) ==
    IF \E r \in records_map : RecordKey(r) = RecordKey(record)
    THEN records_map
    ELSE records_map \cup {record}

\* the records process_new_words computes for its words: every word with
\* every hasher, word by word
NewRecords(words, hashers, source_name) ==
    [ i \in 1..(Len(words) * Len(hashers)) |->
        LET word == words[((i - 1) \div Len(hashers)) + 1]
            hasher == hashers[((i - 1) % Len(hashers)) + 1]
        IN HashRecord(Digest(hasher, word), word, hasher, <<source_name>>) ]

RECURSIVE InsertAll(_, _, _)
InsertAll(records_map, new_records, i) ==
    IF i > Len(new_records) THEN records_map
    ELSE InsertAll(or_insert(records_map, new_records[i]), new_records, i + 1)

\* process_new_words
process_new_words(words, hashers, source_name, records_map) ==
    InsertAll(records_map, NewRecords(words, hashers, source_name), 1)

RECURSIVE UniqueWords(_, _, _)
\* run, lines 142-146: the words that pass seen.insert, in stream order
UniqueWords(words, i, acc) ==
    IF i > Len(words) THEN acc
    ELSE UniqueWords(words, i + 1,
            IF \E j \in 1..Len(acc) : acc[j] = words[i] THEN acc ELSE Append(acc, words[i]))

RECURSIVE ProcessBatches(_, _, _, _, _)
\* run, lines 142-165: the unique words go to process_new_words in batches of
\* BATCH_SIZE, the last one possibly shorter
ProcessBatches(unique, from, hashers, source_name, records_map) ==
    IF from > Len(unique) THEN records_map
    ELSE LET to == Min(from + BATCH_SIZE - 1, Len(unique))
         IN ProcessBatches(unique, to + 1, hashers, source_name,
                process_new_words(SubSeq(unique, from, to), hashers, source_name, records_map))

SeqContains(s, x) == \E i \in 1..Len(s) : s[i] = x

RECURSIVE PushMissing(_, _, _)
\* run, lines 182-187: push the new record's sources the record lacks
PushMissing(sources, new_sources, i) ==
    IF i > Len(new_sources) THEN sources
    ELSE PushMissing(IF SeqContains(sources, new_sources[i]) THEN sources
                     ELSE Append(sources, new_sources[i]),
                     new_sources, i + 1)

\* mutant: the accumulator entry is looked up but not removed
MergeStep_NoRemove(acc, record) ==
    LET hit == {r \in acc.map : RecordKey(r) = RecordKey(record)}
    IN IF hit # {}
       THEN LET new_record == CHOOSE r \in hit : TRUE
            IN [ map |-> acc.map,
                 out |-> Append(acc.out,
                           [record EXCEPT !.sources = PushMissing(@, new_record.sources, 1)]) ]
       ELSE [map |-> acc.map, out |-> Append(acc.out, record)]

\* mutant: the new source tags are pushed without the contains test
MergeStep_NoContains(acc, record) ==
    LET hit == {r \in acc.map : RecordKey(r) = RecordKey(record)}
    IN IF hit # {}
       THEN LET new_record == CHOOSE r \in hit : TRUE
            IN [ map |-> acc.map \ hit,
                 out |-> Append(acc.out,
                           [record EXCEPT !.sources = @ \o new_record.sources]) ]
       ELSE [map |-> acc.map, out |-> Append(acc.out, record)]

\* run, lines 177-191: the callback of for_each_record on one prior record
MergeStep(acc, record) ==
    LET hit == {r \in acc.map : RecordKey(r) = RecordKey(record)}
    IN IF hit # {}
       THEN LET new_record == CHOOSE r \in hit : TRUE
            IN [ map |-> acc.map \ hit,
                 out |-> Append(acc.out,
                           [record EXCEPT !.sources = PushMissing(@, new_record.sources, 1)]) ]
       ELSE [map |-> acc.map, out |-> Append(acc.out, record)]

RECURSIVE MergeExisting(_, _, _)
\* run, lines 173-194: the streaming merge over the prior records
MergeExisting(acc, existing, i) ==
    IF i > Len(existing) THEN acc
    ELSE MergeExisting(MergeStep(acc, existing[i]), existing, i + 1)

RECURSIVE InsertSorted(_, _, _)
\* place r after every element whose hash is not greater
InsertSorted(sorted, r, i) ==
    IF i > Len(sorted) THEN Append(sorted, r)
    ELSE IF LexLE(sorted[i].hash, r.hash) THEN InsertSorted(sorted, r, i + 1)
    ELSE SubSeq(sorted, 1, i - 1) \o <<r>> \o SubSeq(sorted, i, Len(sorted))

RECURSIVE SortFrom(_, _, _)
SortFrom(records, i, sorted) ==
    IF i > Len(records) THEN sorted
    ELSE SortFrom(records, i + 1, InsertSorted(sorted, records[i], 1))

\* mutant: the output buffer is written as collected
sort_by_hash_Unsorted(records) == records

\* final_records.sort_by(|a, b| a.hash.cmp(&b.hash)): a stable sort
sort_by_hash(records) == SortFrom(records, 1, <<>>)

RECURSIVE HashAscendingOrders(_)
\* HashMap::into_values yields the records in any order; the stable sort that
\* follows leaves them in one of the orders that ascend by hash
HashAscendingOrders(S) ==
    IF S = {} THEN {<<>>}
    ELSE UNION { {<<x>> \o o : o \in HashAscendingOrders(S \ {x})} :
                 x \in {y \in S : \A z \in S : LexLE(y.hash, z.hash)} }

\* the chunk of final_records that starts at index from: chunks(BATCH_SIZE)
Chunk(final_records, from) ==
    SubSeq(final_records, from, Min(from + BATCH_SIZE - 1, Len(final_records)))

\* the word sources of the scenario: name(), words() and content_hash()
List1 == [name |-> "list1", words |-> <<"hello", "world", "hello">>, content_hash |-> Some("fp1")]
List2 == [name |-> "list2", words |-> <<"hello", "test">>, content_hash |-> Some("fp2")]
List3 == [name |-> "list3", words |-> <<"collA", "collB">>, content_hash |-> Some("fp3")]
List4 == [name |-> "list4", words |-> <<"collB">>, content_hash |-> Some("fp4")]
List0 == [name |-> "list0", words |-> <<>>, content_hash |-> Some("fp0")]

\* the source, --name and --algo of the invocations of the scenario
Invocations ==
    { [source |-> List1, name |-> None, algo |-> <<"sha256">>],
      [source |-> List2, name |-> None, algo |-> <<"sha256">>],
      [source |-> List1, name |-> Some(""), algo |-> <<"sha256">>],
      [source |-> List1, name |-> None, algo |-> <<"hash256", "dsha256">>],
      [source |-> List3, name |-> None, algo |-> <<"md5">>],
      [source |-> List4, name |-> None, algo |-> <<"md5">>],
      [source |-> List0, name |-> None, algo |-> <<"sha256">>] }

\* the arguments of one invocation, with --append and --force
BuildArgs ==
    { [source |-> i.source, name |-> i.name, algo |-> i.algo, append |-> f[1], force |-> f[2]] :
        i \in Invocations, f \in BOOLEAN \X BOOLEAN }

NoArgs == [ source |-> [name |-> "", words |-> <<>>, content_hash |-> None],
            name |-> None, algo |-> <<>>, append |-> FALSE, force |-> FALSE ]

\* no ParquetStorage instance is alive
NoStorage == [writer |-> None, write_stats |-> None]

\* no build invocation is running; n invocations were started so far and the
\* last one returned outcome
Idle(n, outcome) ==
    [ pc |-> "idle", n |-> n, args |-> NoArgs, prior |-> NoFile, outcome |-> outcome,
      words_read |-> FALSE, final_records |-> <<>>, next |-> 1 ]

\* run, line 79-83
Hashers(args) == [i \in 1..Len(args.algo) |-> HasherName(args.algo[i])]

\* run, line 103
SourceName(args) == IF IsSome(args.name) THEN Unwrap(args.name) ELSE args.source.name

\* Path::exists on the output path
Exists(d) == d.kind # "absent"

\* mutant: the early exit is never taken
AlreadyProcessed_Never(args, d) == FALSE

\* run, lines 106-118: the early exit
AlreadyProcessed(args, d) ==
    /\ ~args.force /\ Exists(d) /\ IsSome(args.source.content_hash)
    /\ get_source_hashes(d).ok
    /\ Chars(Unwrap(args.source.content_hash)) \in get_source_hashes(d).value

\* run, lines 106-110: the read of the fingerprints of the existing artifact
\* fails
LookupFails(args, d) ==
    /\ ~args.force /\ Exists(d) /\ IsSome(args.source.content_hash)
    /\ ~get_source_hashes(d).ok

\* run, lines 106-110 and 173-191: the reads of the prior artifact that fail
ReadFails(args, d) ==
    \/ LookupFails(args, d)
    \/ /\ args.append /\ Exists(d)
       /\ ~for_each_record(d).ok

\* run, lines 122-165: the accumulator after the word stream is read
NewRecordsMap(args) ==
    ProcessBatches(UniqueWords(args.source.words, 1, <<>>), 1, Hashers(args), SourceName(args), {})

\* mutant: the prior artifact is not scanned into the output buffer
Merged_NoScan(args, d) == [map |-> NewRecordsMap(args), out |-> <<>>]

\* run, lines 169-197: the prior records merged, and the records left in the
\* accumulator
Merged(args, d) ==
    IF args.append /\ Exists(d)
    THEN MergeExisting([map |-> NewRecordsMap(args), out |-> <<>>], for_each_record(d).value, 1)
    ELSE [map |-> NewRecordsMap(args), out |-> <<>>]

\* run, lines 196-201: the sorted output buffers the invocation may end with
FinalRecords(args, d) ==
    LET m == Merged(args, d)
    IN {sort_by_hash(m.out \o o) : o \in HashAscendingOrders(m.map)}

\* run, lines 215-220: the store for the output path, with the fingerprint
\* of the source when it has one
BuildStorage(args, final_records, keys) ==
    LET storage == with_expected_capacity(Len(final_records), keys)
    IN IF IsSome(args.source.content_hash)
       THEN add_source_hash(storage, Unwrap(args.source.content_hash))
       ELSE storage

RECURSIVE WriteChunks(_, _, _, _)
\* run, lines 221-223: every chunk from index from on goes to write_batch
WriteChunks(s, d, final_records, from) ==
    IF from > Len(final_records) THEN [st |-> s, disk |-> d]
    ELSE LET r == write_batch(s, d, Chunk(final_records, from))
         IN WriteChunks(r.st, r.disk, final_records, from + BATCH_SIZE)

\* run, lines 169-225: the artifacts at the output path that an invocation
\* which is not skipped and does not fail may return with
BuildArtifacts(args, d) ==
    UNION { LET w == WriteChunks(BuildStorage(args, final_records, keys), d, final_records, 1)
            IN { finish(w.st, w.disk, algOrder, srcOrder, fpOrder).disk :
                   algOrder \in Orders(w.st.write_stats.algorithms),
                   srcOrder \in Orders(w.st.write_stats.sources),
                   fpOrder \in Orders(w.st.write_stats.source_hashes) } :
            final_records \in FinalRecords(args, d), keys \in SipKeyChoices }

Init ==
    /\ disk = NoFile
    /\ st = NoStorage
    /\ writes = 0
    /\ q = NoQuery
    /\ b = Idle(0, "none")
    /\ r2 = NoR2
    /\ env = NoEnv

\* run up to line 220: the early exit, or the output buffer is sorted and the
\* store for the output path is constructed
BuildStart ==
    /\ b.pc = "idle" /\ b.n < MaxBuilds /\ q = NoQuery
    /\ \E args \in BuildArgs :
         IF AlreadyProcessed(args, disk)
         THEN /\ b' = [Idle(b.n + 1, "skipped") EXCEPT !.args = args]
              /\ UNCHANGED <<disk, st>>
         ELSE IF ReadFails(args, disk)
         THEN /\ b' = [Idle(b.n + 1, "error") EXCEPT !.args = args,
                                                     !.words_read = ~LookupFails(args, disk)]
              /\ UNCHANGED <<disk, st>>
         ELSE \E final_records \in FinalRecords(args, disk), keys \in SipKeyChoices :
                /\ b' = [ pc |-> "write", n |-> b.n + 1, args |-> args, prior |-> disk,
                          outcome |-> "none", words_read |-> TRUE,
                          final_records |-> final_records, next |-> 1 ]
                /\ st' = BuildStorage(args, final_records, keys)
                /\ UNCHANGED disk
    /\ UNCHANGED <<writes, q, r2, env>>

\* run, lines 221-223: one chunk goes to write_batch
BuildWriteChunk ==
    /\ b.pc = "write" /\ b.next <= Len(b.final_records)
    /\ LET r == write_batch(st, disk, Chunk(b.final_records, b.next))
       IN st' = r.st /\ disk' = r.disk
    /\ b' = [b EXCEPT !.next = @ + BATCH_SIZE]
    /\ UNCHANGED <<writes, q, r2, env>>

\* run, line 224 to the end: finish, the invocation returns and its store is
\* dropped
BuildFinish ==
    /\ b.pc = "write" /\ b.next > Len(b.final_records)
    /\ \E algOrder \in Orders(st.write_stats.algorithms),
          srcOrder \in Orders(st.write_stats.sources),
          fpOrder \in Orders(st.write_stats.source_hashes) :
         disk' = finish(st, disk, algOrder, srcOrder, fpOrder).disk
    /\ st' = NoStorage
    /\ b' = Idle(b.n, "ok")
    /\ UNCHANGED <<writes, q, r2, env>>

\* the process is killed between the construction of the store and the
\* return of finish(): the store is gone and the path stays as it is
BuildKilled ==
    /\ b.pc = "write"
    /\ st' = NoStorage
    /\ b' = [Idle(b.n, "killed") EXCEPT !.args = b.args]
    /\ UNCHANGED <<disk, writes, q, r2, env>>

Next ==
    \/ BuildStart
    \/ BuildWriteChunk
    \/ BuildFinish
    \/ BuildKilled

Spec == Init /\ [][Next]_vars

\* ------------------------------------------------- the store scenario

Rec(a, w) == HashRecord(Digest(a, w), w, a, <<"t1">>)

\* the record batches a caller passes to write_batch
Batches ==
    { <<>>,
      <<HashRecord(Digest("sha512", "hello"), "hello", "sha512", <<"a,b">>)>>,
      <<Rec("md5", "world"), Rec("md5", "test"), Rec("md5", "hello"), Rec("md5", "pass"),
        Rec("sha512", "world"), Rec("sha512", "test"), Rec("sha512", "pass")>> }

\* the hashes queries are made of: present ones and one that is never written
QueryAlgos == {"md5", "sha512"}
PrefixLens == {1, 16, 20, 24, 32, 64}
QueryPrefixes ==
    {<<>>, Digest("sha512", "notindb")} \cup
    { SubSeq(Digest(x[1], "hello"), 1, x[2]) :
        x \in {y \in QueryAlgos \X PrefixLens : y[2] <= DigestLen(y[1])} }
AlgoFilters == {None, Some("md5")}
Limits == {None} \cup {Some(n) : n \in 0..MaxLimit}

\* the caller constructs a ParquetStorage on the output path, or an
\* R2Storage
InitStore ==
    /\ disk = NoFile
    /\ env = NoEnv
    /\ writes = 0
    /\ q = NoQuery
    /\ b = Idle(0, "none")
    /\ \/ /\ st \in {ParquetStorage_new(keys) : keys \in SipKeyChoices}
          /\ r2 = NoR2
       \/ /\ st = NoStorage
          /\ r2 = [NoR2 EXCEPT !.store = Some(R2Storage_new)]

\* a caller that has finished its writes opens a new ParquetStorage on the path
StoreNew ==
    /\ q = NoQuery /\ r2.store = None
    /\ st.writer = None
    /\ \E keys \in SipKeyChoices : st' = ParquetStorage_new(keys)
    /\ q' = NoQuery
    /\ UNCHANGED <<disk, writes, b, r2, env>>

StoreWriteBatch ==
    /\ q = NoQuery /\ r2.store = None
    /\ writes < MaxWrites
    /\ \E records \in Batches :
         LET r == write_batch(st, disk, records)
         IN st' = r.st /\ disk' = r.disk
    /\ writes' = writes + 1
    /\ q' = NoQuery
    /\ UNCHANGED <<b, r2, env>>

StoreAddSourceHash ==
    /\ q = NoQuery /\ r2.store = None
    /\ st.writer = None /\ st.write_stats.total_records = 0
    /\ \E h \in {"fp1"} : st' = add_source_hash(st, h)
    /\ q' = NoQuery
    /\ UNCHANGED <<disk, writes, b, r2, env>>

\* finish on the ParquetStorage; closed tells whether a writer was closed
StoreFinish ==
    /\ q = NoQuery /\ r2.store = None
    /\ \E algOrder \in Orders(st.write_stats.algorithms),
          srcOrder \in Orders(st.write_stats.sources),
          fpOrder \in Orders(st.write_stats.source_hashes) :
         LET r == finish(st, disk, algOrder, srcOrder, fpOrder)
         IN st' = r.st /\ disk' = r.disk
    /\ q' = [op |-> "finish", closed |-> IsSome(st.writer), result |-> Ok(<<>>)]
    /\ UNCHANGED <<writes, b, r2, env>>

\* a read through the store; the result is kept until the next operation
Query ==
    /\ q = NoQuery /\ r2.store = None
    /\ \E hash_prefix \in QueryPrefixes, algo \in AlgoFilters, limit \in Limits :
         q' = [ op |-> "query", hash_prefix |-> hash_prefix, algo |-> algo, limit |-> limit,
                result |-> query(disk, hash_prefix, algo, limit) ]
    /\ UNCHANGED <<disk, st, writes, b, r2, env>>

StatsCall ==
    /\ q = NoQuery /\ r2.store = None
    /\ q' = [op |-> "stats", result |-> stats(disk)]
    /\ UNCHANGED <<disk, st, writes, b, r2, env>>

GetSourceHashes ==
    /\ q = NoQuery /\ r2.store = None
    /\ q' = [op |-> "get_source_hashes", result |-> get_source_hashes(disk)]
    /\ UNCHANGED <<disk, st, writes, b, r2, env>>

ForEachRecord ==
    /\ q = NoQuery /\ r2.store = None
    /\ q' = [op |-> "for_each_record", result |-> for_each_record(disk)]
    /\ UNCHANGED <<disk, st, writes, b, r2, env>>

\* the caller takes the result of its call and goes on
QueryReturn ==
    /\ q # NoQuery
    /\ q' = NoQuery
    /\ UNCHANGED <<disk, st, writes, b, r2, env>>

R2WriteBatch ==
    /\ q = NoQuery /\ r2.store # None
    /\ writes < MaxWrites
    /\ \E records \in Batches :
         r2' = [r2 EXCEPT !.store = Some(R2_write_batch(Unwrap(@), records)),
                          !.received = @ \/ records # <<>>,
                          !.passed = @ \o records]
    /\ writes' = writes + 1
    /\ q' = NoQuery
    /\ UNCHANGED <<disk, st, b, env>>

\* finish on the R2Storage: an insert, the COPY or the DELETE may fail
R2Finish ==
    /\ q = NoQuery /\ r2.store # None
    /\ \E failed_at \in 0..Len(Unwrap(r2.store).pending_records),
          copy_ok \in BOOLEAN, delete_ok \in BOOLEAN :
         LET r == R2_finish(Unwrap(r2.store), r2.remote, failed_at, copy_ok, delete_ok)
         IN /\ r2' = [r2 EXCEPT !.store = Some(r.st), !.remote = r.remote,
                                !.passed = IF r.ok THEN <<>> ELSE @]
            /\ q' = [ op |-> "finish", closed |-> r.remote # r2.remote,
                      result |-> IF r.ok THEN Ok(<<>>) ELSE Err ]
    /\ UNCHANGED <<disk, st, writes, b, env>>

NextStore ==
    \/ StoreNew
    \/ StoreWriteBatch
    \/ StoreAddSourceHash
    \/ StoreFinish
    \/ Query
    \/ StatsCall
    \/ GetSourceHashes
    \/ ForEachRecord
    \/ QueryReturn
    \/ R2WriteBatch
    \/ R2Finish

SpecStore == InitStore /\ [][NextStore]_vars

\* --------------------------------------- reads of artifacts found on disk

\* an artifact as the store writes it: one md5 row and one fingerprint
WrittenArtifact ==
    LET s0 == add_source_hash(ParquetStorage_new(CHOOSE keys \in SipKeyChoices : TRUE), "fp1")
        w == write_batch(s0, NoFile, <<Rec("md5", "hello")>>)
    IN finish(w.st, w.disk, <<"md5">>, <<"t1">>, <<"fp1">>).disk

\* an artifact with the hashes of two algorithms in one row group, in
\* ascending order: a sha512 row and then an md5 row
MixedArtifact ==
    LET s0 == add_source_hash(ParquetStorage_new(CHOOSE keys \in SipKeyChoices : TRUE), "fp1")
        w == write_batch(s0, NoFile, <<Rec("sha512", "hello"), Rec("md5", "collA")>>)
    IN finish(w.st, w.disk, <<"md5", "sha512">>, <<"t1">>, <<"fp1">>).disk

\* the artifacts at the path when a reader opens it: the written ones, and
\* copies of the first in which one shaha:* value was damaged
FoundArtifacts ==
    { WrittenArtifact, MixedArtifact,
      [WrittenArtifact EXCEPT !.meta.source_hashes = Some(<<BracketOpen, Digit0 + 1, BracketClose>>)],
      [WrittenArtifact EXCEPT !.meta.source_hashes = Some(<<BracketOpen, Quote>>)],
      [WrittenArtifact EXCEPT !.meta.bloom_keys = Some(Join(<<ToDecimal(1), ToDecimal(2), ToDecimal(3)>>, Comma))],
      [WrittenArtifact EXCEPT !.meta.bloom_bitmap = Some(<<"not base64", <<>>>>)],
      [WrittenArtifact EXCEPT !.meta.total_records = Some(<<Quote>>)] }

\* the hash arguments of the query command: the prefixes in hexadecimal, one
\* with an odd number of digits and one with a character that is no digit
HashArguments ==
    {HexEncode(p) : p \in QueryPrefixes} \cup {<<Digit0 + 1>>, <<Digit0, Quote>>}

\* the query command on the local database
QueryRun ==
    /\ q = NoQuery /\ r2.store = None
    /\ \E hash \in HashArguments, algo \in AlgoFilters, limit \in Limits :
         q' = [ op |-> "query_run", hash |-> hash, algo |-> algo, limit |-> limit,
                result |-> query_run(disk, hash, algo, limit) ]
    /\ UNCHANGED <<disk, st, writes, b, r2, env>>

InitRead ==
    /\ disk \in FoundArtifacts \cup {NoFile}
    /\ st \in {ParquetStorage_new(keys) : keys \in SipKeyChoices}
    /\ writes = 0
    /\ q = NoQuery
    /\ b = Idle(0, "none")
    /\ r2 = NoR2
    /\ env = NoEnv

NextRead ==
    \/ Query
    \/ StatsCall
    \/ GetSourceHashes
    \/ ForEachRecord
    \/ QueryRun
    \/ QueryReturn

SpecRead == InitRead /\ [][NextRead]_vars

\* ------------------------------------------------- claims on the store

\* the last read was query(hash_prefix, algo, limit) on a finalized artifact
QueriedFinal == q.op = "query" /\ disk.kind = "final"

RowIndexes == 1..Len(disk.rows)

\* the rows of the artifact that a query for (prefix, algo) is to return
MatchingRows(rows, hash_prefix, algo) ==
    LET Wanted(r) == /\ starts_with(r.hash, hash_prefix)
                     /\ (algo = None \/ r.algorithm = Unwrap(algo))
    IN SelectSeq(rows, Wanted)

Take(s, n) == SubSeq(s, 1, Min(n, Len(s)))

\* C1: after write_batch and finish, query(r.hash, None, None) returns exactly
\* the record r, for every row r whose hash no other row shares
C1_RoundTrip ==
    (QueriedFinal /\ q.algo = None /\ q.limit = None)
    => \A i \in RowIndexes :
          ( /\ disk.rows[i].hash = q.hash_prefix
            /\ \A j \in RowIndexes : j # i => disk.rows[j].hash # disk.rows[i].hash )
          => q.result = Ok(<<disk.rows[i]>>)

\* C2: for every row r and every non-empty prefix of r.hash, of any length,
\* query(prefix, None, None) contains r
C2_PrefixMonotonicity ==
    (QueriedFinal /\ q.algo = None /\ q.limit = None /\ q.hash_prefix # <<>>)
    => \A i \in RowIndexes :
          starts_with(disk.rows[i].hash, q.hash_prefix)
          => /\ q.result.ok
             /\ \E j \in 1..Len(q.result.value) : q.result.value[j] = disk.rows[i]

\* C3: the filter rebuilt from the artifact's bloom metadata never reports a
\* hash that is in one of the artifact's rows as definitely absent
C3_NoFalseNegatives ==
    disk.kind = "final"
    => LET loaded == load_bloom_filter(disk)
       IN (loaded.ok /\ IsSome(loaded.value))
          => \A i \in RowIndexes : BloomCheck(Unwrap(loaded.value), disk.rows[i].hash)

\* C4: at finish, the filter load_bloom_filter rebuilds from the metadata is
\* the writer's in-memory filter: same bit count, seeds, number of hash
\* functions and bits, and bloom_items is the capacity the filter was built for
C4_FilterRoundTrip ==
    [][ (IsSome(st.writer) /\ st'.writer = None /\ disk'.kind = "final")
        => /\ load_bloom_filter(disk') = Ok(Some(st.write_stats.bloom))
           /\ ParseDecimal(Unwrap(disk'.meta.bloom_items)) = Some(DEFAULT_BLOOM_CAPACITY) ]_vars

\* C5: query(prefix, algo, Some(n)) returns the first n matching rows in file
\* order, all of them when fewer than n match, for every n >= 0
C5_Limit ==
    (QueriedFinal /\ IsSome(q.limit))
    => /\ q.result.ok
       /\ Len(q.result.value) <= Unwrap(q.limit)
       /\ q.result.value = Take(MatchingRows(disk.rows, q.hash_prefix, q.algo), Unwrap(q.limit))

\* C6: query(p, Some(a), None) is exactly the sub-sequence of
\* query(p, None, None) whose algorithm is a, in the same order
C6_AlgorithmFilter ==
    (q.op = "query" /\ IsSome(q.algo) /\ q.limit = None)
    => LET unfiltered == query(disk, q.hash_prefix, None, None)
           HasAlgo(r) == r.algorithm = Unwrap(q.algo)
       IN /\ q.result.ok = unfiltered.ok
          /\ q.result.value = SelectSeq(unfiltered.value, HasAlgo)

\* C6 witness: a filtered query that returned rows while the unfiltered one
\* returns more
C6_Witness ==
    /\ QueriedFinal /\ IsSome(q.algo) /\ q.limit = None
    /\ q.result.ok /\ Len(q.result.value) > 0
    /\ Len(query(disk, q.hash_prefix, None, None).value) > Len(q.result.value)

\* ------------------------------------------- claims on the build pipeline

\* C7: every finalized artifact has at most one row per (hash, algorithm)
C7_KeyUnique ==
    disk.kind = "final"
    => \A i, j \in RowIndexes : i # j => RecordKey(disk.rows[i]) # RecordKey(disk.rows[j])

\* C7 witness: an artifact of a second invocation in which an append met a key
\* of the prior artifact (a row carries two source tags)
C7_Witness ==
    /\ disk.kind = "final" /\ b.pc = "idle" /\ b.n = 2
    /\ \E i \in RowIndexes : Len(disk.rows[i].sources) = 2

\* non-decreasing byte-lexicographic order of hash
SortedByHash(rows) ==
    \A i \in 1..(Len(rows) - 1) : LexLE(rows[i].hash, rows[i + 1].hash)

\* C8: for_each_record yields the rows of an artifact of the build pipeline in
\* non-decreasing order of hash, and the chunked write hands the sorted
\* sequence to the writer unchanged
C8_Sorted ==
    /\ disk.kind = "final" => SortedByHash(for_each_record(disk).value)
    /\ (b.pc = "write" /\ IsSome(st.writer))
       => Unwrap(st.writer).rows = SubSeq(b.final_records, 1, Min(b.next - 1, Len(b.final_records)))
    /\ (b.pc = "write" /\ ~IsSome(st.writer)) => b.next = 1

\* C8 witness: an artifact written by an append in more than one chunk
C8_Witness ==
    /\ disk.kind = "final" /\ b.pc = "idle" /\ b.n = 2
    /\ Len(disk.rows) > BATCH_SIZE
    /\ \E i \in RowIndexes : Len(disk.rows[i].sources) = 2

\* C9: every row of a finalized artifact has a non-empty sources list without
\* duplicate tags and without empty tags
C9_Provenance ==
    disk.kind = "final"
    => \A i \in RowIndexes :
          LET sources == disk.rows[i].sources
          IN /\ Len(sources) > 0
             /\ \A j, k \in 1..Len(sources) : j # k => sources[j] # sources[k]
             /\ \A j \in 1..Len(sources) : sources[j] # ""

RowSet(rows) == {rows[i] : i \in 1..Len(rows)}

\* the (hash, algorithm) keys the words of an invocation produce, each with
\* the row it makes when the key is new
ProducedRows(args) ==
    { HashRecord(Digest(HasherName(args.algo[h]), args.source.words[w]), args.source.words[w],
                 HasherName(args.algo[h]), <<SourceName(args)>>) :
        h \in 1..Len(args.algo), w \in 1..Len(args.source.words) }

\* C10: an append of source tag t over words W to the prior artifact P leaves
\* (a) the prior rows whose key W produces, with t added after their sources
\* iff absent, (b) the other prior rows unchanged, (c) one row with sources
\* [t] for each new key, and no other row
C10_AppendMerge ==
    [][ ( /\ b.pc = "write" /\ b'.pc = "idle" /\ b'.outcome = "ok"
          /\ b.args.append /\ b.prior.kind = "final" )
        => LET prior_rows == b.prior.rows
               new_rows == IF disk'.kind = "final" THEN disk'.rows ELSE <<>>
               tag == SourceName(b.args)
               produced == {RecordKey(r) : r \in ProducedRows(b.args)}
               prior_keys == {RecordKey(prior_rows[i]) : i \in 1..Len(prior_rows)}
           IN /\ disk'.kind = "final"
              /\ \A i, j \in 1..Len(new_rows) :
                    i # j => RecordKey(new_rows[i]) # RecordKey(new_rows[j])
              /\ {RecordKey(new_rows[i]) : i \in 1..Len(new_rows)} = prior_keys \cup produced
              /\ \A j \in 1..Len(prior_rows) :
                    IF RecordKey(prior_rows[j]) \in produced /\ ~SeqContains(prior_rows[j].sources, tag)
                    THEN [prior_rows[j] EXCEPT !.sources = Append(@, tag)] \in RowSet(new_rows)
                    ELSE prior_rows[j] \in RowSet(new_rows)
              /\ \A i \in 1..Len(new_rows) :
                    RecordKey(new_rows[i]) \notin prior_keys
                    => new_rows[i] \in ProducedRows(b.args) ]_vars

\* C10 witness: an append about to finish whose output holds a merged row, an
\* unchanged prior row and a new row
C10_Witness ==
    /\ b.pc = "write" /\ b.args.append /\ b.prior.kind = "final"
    /\ b.next > Len(b.final_records)
    /\ \E i \in 1..Len(b.final_records) :
          /\ Len(b.final_records[i].sources) = 2
          /\ \E j \in 1..Len(b.prior.rows) :
                /\ RecordKey(b.prior.rows[j]) = RecordKey(b.final_records[i])
                /\ Len(b.prior.rows[j].sources) = 1
    /\ \E i \in 1..Len(b.final_records) :
          \E j \in 1..Len(b.prior.rows) : b.prior.rows[j] = b.final_records[i]
    /\ \E i \in 1..Len(b.final_records) :
          \A j \in 1..Len(b.prior.rows) :
             RecordKey(b.prior.rows[j]) # RecordKey(b.final_records[i])

\* the artifacts' rows a build of args into a fresh path may leave
FreshBuildOf(args) == FinalRecords([args EXCEPT !.append = FALSE], NoFile)

NoDuplicateSources(rows) ==
    \A i \in 1..Len(rows) :
       \A j, k \in 1..Len(rows[i].sources) : j # k => rows[i].sources[j] # rows[i].sources[k]

\* C11: a build of S with append over the artifact of a fresh build of S
\* (same tag and algorithms, force or not) leaves an artifact with the same
\* set of records, and no sources list with a duplicate
C11_AppendIdempotence ==
    [][ /\ ( /\ b.pc = "write" /\ b'.pc = "idle" /\ b'.outcome = "ok" /\ b.args.append
             /\ b.prior.kind = "final" /\ b.prior.rows \in FreshBuildOf(b.args) )
           => /\ disk'.kind = "final"
              /\ RowSet(disk'.rows) = RowSet(b.prior.rows)
              /\ Len(disk'.rows) = Len(b.prior.rows)
              /\ NoDuplicateSources(disk'.rows)
        /\ ( /\ b.pc = "idle" /\ b'.pc = "idle" /\ b'.n = b.n + 1 /\ b'.args.append
             /\ disk.kind = "final" /\ disk.rows \in FreshBuildOf(b'.args) )
           => /\ b'.outcome = "skipped"
              /\ disk' = disk
              /\ NoDuplicateSources(disk'.rows) ]_vars

\* C11 witness: a forced append of S over the artifact of a fresh build of S
\* is about to finish
C11_Witness ==
    /\ b.pc = "write" /\ b.args.append /\ b.args.force
    /\ b.prior.kind = "final" /\ b.prior.rows \in FreshBuildOf(b.args)
    /\ b.next > Len(b.final_records)

\* the fingerprint of the source of args is listed in the shaha:source_hashes
\* value of the artifact d
FingerprintListed(args, d) ==
    /\ d.kind = "final" /\ IsSome(d.meta.source_hashes)
    /\ IsSome(args.source.content_hash)
    /\ LET listed == JsonDecode(Unwrap(d.meta.source_hashes))
       IN listed.ok /\ Chars(Unwrap(args.source.content_hash)) \in listed.value

\* C12: an invocation without force whose source has a fingerprint that the
\* existing artifact lists returns success without reading the words and
\* leaves the artifact as it is
C12_EarlyExit ==
    [][ ( /\ b.pc = "idle" /\ b'.n = b.n + 1
          /\ ~b'.args.force /\ FingerprintListed(b'.args, disk) )
        => /\ b'.pc = "idle" /\ b'.outcome = "skipped"
           /\ ~b'.words_read
           /\ disk' = disk
           /\ st' = st ]_vars

\* C12 witness: an invocation without append and without force returned by
\* the early exit
C12_Witness ==
    /\ b.pc = "idle" /\ b.outcome = "skipped"
    /\ ~b.args.append /\ ~b.args.force
    /\ FingerprintListed(b.args, disk)

\* the fingerprints the artifact d lists under shaha:source_hashes
ListedFingerprints(d) ==
    IF IsSome(d.meta.source_hashes) /\ JsonDecode(Unwrap(d.meta.source_hashes)).ok
    THEN JsonDecode(Unwrap(d.meta.source_hashes)).value
    ELSE {}

\* the source of the invocation inv gave a row of d its tag (in the scenario a
\* tag is used for one source only)
Contributed(inv, rows) ==
    \E i \in 1..Len(rows) :
       /\ SeqContains(rows[i].sources, SourceName(inv))
       /\ \E w \in 1..Len(inv.source.words) : inv.source.words[w] = rows[i].preimage

\* C13: a finalized artifact lists the fingerprint of every fingerprinted
\* source that contributed rows or tags to it, those of earlier append
\* cycles included
C13_FingerprintCompleteness ==
    disk.kind = "final"
    => \A inv \in Invocations :
          (IsSome(inv.source.content_hash) /\ Contributed(inv, disk.rows))
          => Chars(Unwrap(inv.source.content_hash)) \in ListedFingerprints(disk)

\* C14: the shaha:total_records value of a finalized artifact is the number
\* of rows stored in the file, also when the instance wrote and finished
\* before
C14_RecordCount ==
    disk.kind = "final"
    => /\ IsSome(disk.meta.total_records)
       /\ ParseDecimal(Unwrap(disk.meta.total_records)) = Some(Len(disk.rows))

\* the texts of the distinct algorithm values and source tags of the rows
RowAlgorithms(rows) == {Chars(rows[i].algorithm) : i \in 1..Len(rows)}
RowSources(rows) ==
    UNION {{Chars(rows[i].sources[j]) : j \in 1..Len(rows[i].sources)} : i \in 1..Len(rows)}

\* C15: stats() on a finalized artifact returns the sets of the distinct
\* algorithm values and source tags of its rows, as the full scan computes
\* them
C15_StatsAgree ==
    (q.op = "stats" /\ disk.kind = "final")
    => /\ q.result.ok
       /\ q.result.value.algorithms = RowAlgorithms(disk.rows)
       /\ q.result.value.sources = RowSources(disk.rows)
       /\ q.result.value.algorithms = scan_stats(disk).value.algorithms
       /\ q.result.value.sources = scan_stats(disk).value.sources

\* C16: as long as a store has received no record (write_batch never called,
\* or called with empty lists only), no call creates or changes the file at
\* the path or the remote object, and finish returns success
C16_NoOutputWithoutRecords ==
    [][ /\ (r2.store = None /\ st'.write_stats.total_records = 0)
           => /\ disk' = disk
              /\ (q = NoQuery /\ q'.op = "finish") => q'.result.ok
        /\ (r2.store # None /\ ~r2'.received)
           => /\ r2'.remote = r2.remote
              /\ (q = NoQuery /\ q'.op = "finish") => q'.result.ok ]_vars

\* C16 witness: finish has returned on a ParquetStorage whose write_batch
\* calls all got the empty list, and there is no file
C16_Witness ==
    /\ r2.store = None /\ q.op = "finish" /\ q.result.ok
    /\ writes >= 1 /\ st.write_stats.total_records = 0
    /\ disk.kind = "absent"

\* C17: a finish() on a ParquetStorage that has no open writer (the earlier
\* finish closed it and no write_batch came since) returns success and leaves
\* the artifact and the store as they are
C17_FinishIdempotent ==
    [][ ( /\ r2.store = None /\ q = NoQuery /\ q'.op = "finish"
          /\ st.writer = None /\ disk.kind = "final" )
        => /\ q'.result.ok
           /\ disk' = disk
           /\ st' = st ]_vars

\* C17 witness: a finish that closed no writer has returned, on an instance
\* that wrote the artifact before
C17_Witness ==
    /\ r2.store = None /\ q.op = "finish" /\ ~q.closed /\ q.result.ok
    /\ disk.kind = "final"
    /\ st.write_stats.total_records = Len(disk.rows)

\* two records with the same key and different preimages meet in the
\* invocation args over the artifact d: among the records hashed from the
\* words, or between one of them and a row of the prior artifact
PreimageConflict(args, d) ==
    \/ \E ra, rb \in ProducedRows(args) :
          RecordKey(ra) = RecordKey(rb) /\ ra.preimage # rb.preimage
    \/ /\ args.append /\ d.kind = "final"
       /\ \E r \in ProducedRows(args) : \E j \in 1..Len(d.rows) :
             RecordKey(r) = RecordKey(d.rows[j]) /\ r.preimage # d.rows[j].preimage

\* C18: an invocation in which two records with the same (hash, algorithm)
\* and different preimages meet fails; it does not go on to write
C18_PreimageConflict ==
    [][ ( /\ b.pc = "idle" /\ b'.n = b.n + 1 /\ b'.outcome # "skipped"
          /\ PreimageConflict(b'.args, disk) )
        => (b'.pc = "idle" /\ b'.outcome = "error") ]_vars

\* C19: with no file at the path, query returns the empty list, stats the
\* default stats, get_source_hashes the empty set and for_each_record
\* success without a record; none fails and none creates the file
C19_MissingArtifact ==
    [][ (disk.kind = "absent" /\ q = NoQuery)
        => /\ q'.op = "query" => (q'.result = Ok(<<>>) /\ disk' = disk)
           /\ q'.op = "stats" => (q'.result = Ok(Stats_default) /\ disk' = disk)
           /\ q'.op = "get_source_hashes" => (q'.result = Ok({}) /\ disk' = disk)
           /\ q'.op = "for_each_record" => (q'.result = Ok(<<>>) /\ disk' = disk) ]_vars

\* C19 witness: a query with a full-length prefix, an algorithm and a limit
\* has returned while no file is at the path
C19_Witness ==
    /\ q.op = "query" /\ disk.kind = "absent"
    /\ is_full_hash_length(Len(q.hash_prefix)) /\ IsSome(q.algo) /\ IsSome(q.limit)
    /\ q.result = Ok(<<>>)

\* ------------------------------------- resolution of the remote configuration

\* a value is unset, or set to a text that tells where it was set
Setting(text) == {None, Some(text)}

\* the environments and configuration files of the scenario
Environments ==
    { [ vars |-> [ SHAHA_R2_ENDPOINT |-> v[1], SHAHA_R2_BUCKET |-> v[2],
                   SHAHA_R2_ACCESS_KEY_ID |-> v[3], AWS_ACCESS_KEY_ID |-> v[4],
                   SHAHA_R2_SECRET_ACCESS_KEY |-> v[5], AWS_SECRET_ACCESS_KEY |-> v[6] ],
        r2 |-> [ R2Section_default EXCEPT !.endpoint = f[1], !.bucket = f[2],
                                          !.access_key_id = f[3], !.secret_access_key = f[4] ] ] :
        v \in Setting("env") \X Setting("env") \X Setting("env") \X Setting("aws")
               \X Setting("env") \X Setting("aws"),
        f \in Setting("file") \X Setting("file") \X Setting("file") \X Setting("file") }

\* R2Overrides::new("auto", "hashes.parquet"): no explicit override
R2Overrides_new ==
    [ endpoint |-> None, bucket |-> None, access_key_id |-> None, secret_access_key |-> None,
      path |-> None, region |-> "auto", default_path |-> "hashes.parquet" ]

\* the explicit overrides of the command line
Overrides ==
    { [ R2Overrides_new EXCEPT !.endpoint = o[1], !.bucket = o[2],
                               !.access_key_id = o[3], !.secret_access_key = o[4] ] :
        o \in Setting("flag") \X Setting("flag") \X Setting("flag") \X Setting("flag") }

InitConfig ==
    /\ disk = NoFile
    /\ st = NoStorage
    /\ writes = 0
    /\ q = NoQuery
    /\ b = Idle(0, "none")
    /\ r2 = NoR2
    /\ env \in Environments

BuildR2Config ==
    /\ q = NoQuery
    /\ \E overrides \in Overrides :
         q' = [ op |-> "build_r2_config", overrides |-> overrides,
                result |-> build_r2_config(env, overrides) ]
    /\ UNCHANGED <<disk, st, writes, b, r2, env>>

ToR2Config ==
    /\ q = NoQuery
    /\ q' = [op |-> "to_r2_config", overrides |-> R2Overrides_new, result |-> to_r2_config(env)]
    /\ UNCHANGED <<disk, st, writes, b, r2, env>>

NextConfig ==
    \/ BuildR2Config
    \/ ToR2Config
    \/ QueryReturn

SpecConfig == InitConfig /\ [][NextConfig]_vars

\* the value the priority order gives a field: the override, then the
\* SHAHA_R2_* variable, then the AWS_* variable where there is one, then the
\* configuration file
Resolved(field) ==
    LET o == q.overrides
    IN CASE field = "endpoint" ->
              OrElse(OrElse(o.endpoint, env.vars.SHAHA_R2_ENDPOINT), env.r2.endpoint)
         [] field = "bucket" ->
              OrElse(OrElse(o.bucket, env.vars.SHAHA_R2_BUCKET), env.r2.bucket)
         [] field = "access key" ->
              OrElse(OrElse(OrElse(o.access_key_id, env.vars.SHAHA_R2_ACCESS_KEY_ID),
                            env.vars.AWS_ACCESS_KEY_ID), env.r2.access_key_id)
         [] field = "secret key" ->
              OrElse(OrElse(OrElse(o.secret_access_key, env.vars.SHAHA_R2_SECRET_ACCESS_KEY),
                            env.vars.AWS_SECRET_ACCESS_KEY), env.r2.secret_access_key)

RequiredFields == {"endpoint", "bucket", "access key", "secret key"}

\* the configuration c carries the resolved value of every required field
CarriesResolved(c) ==
    /\ c.endpoint = Unwrap(Resolved("endpoint"))
    /\ c.bucket = Unwrap(Resolved("bucket"))
    /\ c.access_key_id = Unwrap(Resolved("access key"))
    /\ c.secret_access_key = Unwrap(Resolved("secret key"))

\* C25: both resolvers take each of endpoint, bucket, access key and secret
\* key from the highest-priority place that defines it (override, SHAHA_R2_*,
\* AWS_*, configuration file); when a required field is defined nowhere,
\* build_r2_config fails with an error that names a missing field and
\* to_r2_config returns no configuration
C25_ConfigPriority ==
    LET missing == {f \in RequiredFields : Resolved(f) = None}
    IN /\ q.op = "build_r2_config"
          => IF missing = {} THEN q.result.ok /\ CarriesResolved(q.result.value)
             ELSE ~q.result.ok /\ q.result.value \in missing
       /\ q.op = "to_r2_config"
          => IF missing = {} THEN IsSome(q.result) /\ CarriesResolved(Unwrap(q.result))
             ELSE q.result = None

\* a shaha:* value of the artifact d that does not have the form finish()
\* gives it
MalformedSourceHashes(d) ==
    IsSome(d.meta.source_hashes) /\ ~JsonDecode(Unwrap(d.meta.source_hashes)).ok
MalformedBloomKeys(d) ==
    /\ IsSome(d.meta.bloom_keys)
    /\ LET pieces == Split(Unwrap(d.meta.bloom_keys), Comma)
       IN ~(Len(pieces) = 4 /\ \A i \in 1..Len(pieces) : IsSome(ParseDecimal(pieces[i])))
MalformedBloomBitmap(d) ==
    IsSome(d.meta.bloom_bitmap) /\ ~Base64Decode(Unwrap(d.meta.bloom_bitmap)).ok
MalformedTotalRecords(d) ==
    IsSome(d.meta.total_records) /\ ParseDecimal(Unwrap(d.meta.total_records)) = None

\* C20: the read that uses a malformed shaha:* value fails: get_source_hashes
\* on malformed source_hashes, the filter probe of query on malformed
\* bloom_keys or bloom_bitmap, stats on malformed total_records
C20_MalformedReported ==
    disk.kind = "final"
    => /\ (q.op = "get_source_hashes" /\ MalformedSourceHashes(disk)) => ~q.result.ok
       /\ ( /\ q.op = "query" /\ is_full_hash_length(Len(q.hash_prefix))
            /\ (MalformedBloomKeys(disk) \/ MalformedBloomBitmap(disk)) ) => ~q.result.ok
       /\ (q.op = "stats" /\ MalformedTotalRecords(disk)) => ~q.result.ok

\* the seven shaha:* keys of the file-level metadata
MetadataKeys ==
    {"total_records", "algorithms", "sources", "source_hashes",
     "bloom_bitmap", "bloom_keys", "bloom_items"}

\* C21: every artifact finalized by the local store carries all seven
\* shaha:* metadata keys, also when add_source_hash was never called
C21_MetadataKeys ==
    disk.kind = "final" => \A key \in MetadataKeys : IsSome(disk.meta[key])

\* C22: the query command with a well-formed hexadecimal argument that
\* matches no row, or on a missing artifact, completes successfully
C22_NoMatchNotError ==
    ( /\ q.op = "query_run" /\ HexDecode(q.hash).ok
      /\ \/ disk.kind = "absent"
         \/ /\ disk.kind = "final"
            /\ MatchingRows(disk.rows, HexDecode(q.hash).value, q.algo) = <<>> )
    => q.result.ok

\* C23: when a local build is killed before finish() returns, the output
\* path holds no file or a complete artifact, never a partial file, and a
\* finalized artifact that was at the path is still there
C23_NoPartialFile ==
    [][ (b.pc = "write" /\ b'.outcome = "killed")
        => /\ disk'.kind # "partial"
           /\ b.prior.kind = "final" => disk'.kind = "final" ]_vars

\* C24: an append cycle is reproducible: every execution of the cycle on
\* the same prior artifact, words, source tag and algorithms leaves the
\* artifact this execution leaves (rows, their order and sources lists, and
\* the file-level metadata values)
C24_Reproducible ==
    [][ ( /\ b.pc = "write" /\ b'.pc = "idle" /\ b'.outcome = "ok"
          /\ b.args.append /\ b.prior.kind = "final" )
        => \A other \in BuildArtifacts(b.args, b.prior) : other = disk' ]_vars

\* C26: query never skips a row group that holds a row whose hash starts
\* with the prefix: prefix_might_be_in_range is true for the statistics of
\* every such row group
C26_PruningConservative ==
    QueriedFinal
    => \A g \in 1..NumRowGroups(disk.rows) :
          LET rs == RowGroupRows(disk.rows, g)
          IN (\E i \in 1..Len(rs) : starts_with(rs[i].hash, q.hash_prefix))
             => prefix_might_be_in_range(q.hash_prefix, rs[StatMin(rs)].hash, rs[StatMax(rs)].hash)

\* the artifact d has, for every word of the source of args and every hasher
\* of args, a row with that hash, preimage and algorithm whose sources
\* include the source tag
Covers(args, d) ==
    LET rows == IF d.kind = "final" THEN d.rows ELSE <<>>
        tag == SourceName(args)
    IN \A w \in 1..Len(args.source.words), h \in 1..Len(args.algo) :
          \E k \in 1..Len(rows) :
             /\ rows[k].hash = Digest(Hashers(args)[h], args.source.words[w])
             /\ rows[k].preimage = args.source.words[w]
             /\ rows[k].algorithm = Hashers(args)[h]
             /\ SeqContains(rows[k].sources, tag)

\* no two different words of the source of args have the same hash under a
\* hasher of args
NoCollision(args) ==
    \A v, w \in 1..Len(args.source.words), h \in 1..Len(args.algo) :
       Digest(Hashers(args)[h], args.source.words[v]) = Digest(Hashers(args)[h], args.source.words[w])
       => args.source.words[v] = args.source.words[w]

\* C27: when a local build of a source without colliding words returns
\* success, after its writes or by the early exit, the artifact covers every
\* word of the source under every requested algorithm with the source tag
C27_BuildCoversRequest ==
    [][ /\ (b.pc = "write" /\ b'.pc = "idle" /\ b'.outcome = "ok" /\ NoCollision(b.args))
           => Covers(b.args, disk')
        /\ (b.pc = "idle" /\ b'.n = b.n + 1 /\ b'.outcome = "skipped" /\ NoCollision(b'.args))
           => Covers(b'.args, disk')
      ]_vars

\* the output buffer holds every row of the artifact d, with at least the
\* sources the row has in d
BufferHolds(final_records, d) ==
    \A i \in 1..Len(d.rows) :
       \E k \in 1..Len(final_records) :
          /\ RecordKey(final_records[k]) = RecordKey(d.rows[i])
          /\ final_records[k].preimage = d.rows[i].preimage
          /\ \A j \in 1..Len(d.rows[i].sources) :
                SeqContains(final_records[k].sources, d.rows[i].sources[j])

\* C28: in an append over a finalized artifact the scan leaves the path as it
\* is, the output buffer holds every prior row when the path is first
\* created or truncated, and an invocation that fails on a read leaves the
\* path as it is
C28_ReadBeforeRewrite ==
    [][ /\ (b.pc = "idle" /\ b'.pc = "write") => disk' = disk
        /\ ( /\ b.pc = "write" /\ b.args.append /\ b.prior.kind = "final"
             /\ disk = b.prior /\ disk' # disk )
           => BufferHolds(b.final_records, b.prior)
        /\ (b.pc = "idle" /\ b'.n = b.n + 1 /\ b'.outcome = "error") => disk' = disk
      ]_vars

\* C28 witness: an append over a finalized artifact has truncated the path
\* after its first chunk, with every prior row in the output buffer
C28_Witness ==
    /\ b.pc = "write" /\ b.args.append /\ b.prior.kind = "final"
    /\ Len(b.prior.rows) > 0 /\ b.next > 1 /\ disk.kind = "partial"
    /\ BufferHolds(b.final_records, b.prior)

\* C29: after a build without append over an existing artifact that is not
\* skipped and returns success, the artifact holds exactly the rows derived
\* from the new source and lists the fingerprint of the new source
C29_Supersedes ==
    [][ ( /\ b.pc = "write" /\ b'.pc = "idle" /\ b'.outcome = "ok"
          /\ ~b.args.append /\ b.prior.kind = "final" )
        => LET rows == IF disk'.kind = "final" THEN disk'.rows ELSE <<>>
           IN /\ RowSet(rows) \subseteq ProducedRows(b.args)
              /\ {RecordKey(r) : r \in RowSet(rows)} = {RecordKey(r) : r \in ProducedRows(b.args)}
              /\ IsSome(b.args.source.content_hash) => FingerprintListed(b.args, disk') ]_vars

\* C30: a finish on the R2Storage returns success only when no record was
\* passed to write_batch since the last successful finish, or when the remote
\* object it wrote holds exactly the records passed since then
C30_RemoteFinish ==
    [][ (r2.store # None /\ q'.op = "finish" /\ q'.result.ok)
        => \/ r2.passed = <<>> /\ r2'.remote = r2.remote
           \/ /\ r2.passed # <<>>
              /\ r2'.remote.kind = "object"
              /\ r2'.remote.rows = r2.passed ]_vars

====
